---- MODULE Spec2Model ----
(***************************************************************************)
(* A model of the two in-memory indexing containers of the repository:     *)
(*   - IndexedCollection (src/src/web/IndexedCollection.ts): a membership  *)
(*     Set plus one Map<value, Set<item>> per declared key;                *)
(*   - CompositeIndex (src/src/web/CompositeIndex.ts): a membership Set    *)
(*     plus one nested Map keyed by the declared keys in order.            *)
(*                                                                         *)
(* Items are JavaScript objects: an item is an identity (a number of       *)
(* Items) and its fields live in attr, which the caller may change in      *)
(* place.  A JavaScript Set is a sequence without repetition and a Map a   *)
(* sequence of entries with distinct keys, both in insertion order, as     *)
(* Array.from observes them.                                               *)
(***************************************************************************)
EXTENDS Integers, Sequences, FiniteSets, TLC

\* ------------------------------------------------------------- bounds
NumItems == 2
NumValues == 2
\* In-place assignments to stored objects in one run.
MaxStale == 2
\* Transitions of a finite-state machine.
MaxTransitions == 2

Items == 1 .. NumItems
Values == 1 .. NumValues

\* undefined and null, which a field may hold in place of a value.
Undefined == 0
Null == -1
Voids == {Undefined, Null}

\* The fields of a record; the keys a caller may pass to a lookup ("age" is
\* a field no index is declared on).
Fields == {"id", "name"}
AllKeys == Fields \cup {"age"}

\* The key list the flat collection is constructed with.
indexedKeys == <<"id", "name">>

\* ------------------------------------------------- JavaScript Set and Map
Range(s) == {s[i] : i \in DOMAIN s}

\* SetAdd gone wrong: an element that is present is moved to the end.
SetAddLast(s, x) == Append(SelectSeq(s, LAMBDA y : y # x), x)

\* Set.prototype.add: appends unless present.
SetAdd(s, x) == IF x \in Range(s) THEN s ELSE Append(s, x)

\* Set.prototype.delete.
SetDelete(s, x) == SelectSeq(s, LAMBDA y : y # x)

\* A Map is a sequence of entries [k |-> key, v |-> value].
MapHas(m, key) == \E i \in DOMAIN m : m[i].k = key

MapGet(m, key) == m[CHOOSE i \in DOMAIN m : m[i].k = key].v

\* MapSet gone wrong: an entry that is replaced moves to the end.
MapSetLast(m, key, val) ==
  Append(SelectSeq(m, LAMBDA e : e.k # key), [k |-> key, v |-> val])

\* Map.prototype.set: replaces in place, or appends a new entry.
MapSet(m, key, val) ==
  IF MapHas(m, key)
  THEN [i \in DOMAIN m |-> IF m[i].k = key THEN [k |-> key, v |-> val] ELSE m[i]]
  ELSE Append(m, [k |-> key, v |-> val])

\* Map.prototype.delete.
MapDelete(m, key) == SelectSeq(m, LAMBDA e : e.k # key)

\* Array.from(map.keys()).
MapKeys(m) == [i \in DOMAIN m |-> m[i].k]

\* --------------------------------------------------- IndexedCollection
\* A collection state st is [items, indexes, threw, calls]: the two private
\* fields, whether the call threw, and the items removeBy has called remove
\* on.  The operators below are the methods, from state to state.

\* constructor: one empty Map per declared key.
NewIndexes == [key \in Range(indexedKeys) |-> <<>>]

NewCollection ==
  [items |-> <<>>, indexes |-> NewIndexes, threw |-> FALSE, calls |-> <<>>]

\* addAt gone wrong: the item is put in a bucket only when the bucket is new.
addAtNewOnly(st, key, item, a) ==
  IF key \notin DOMAIN st.indexes THEN [st EXCEPT !.threw = TRUE]
  ELSE IF MapHas(st.indexes[key], a[key]) THEN st
  ELSE [st EXCEPT !.indexes[key] = MapSet(st.indexes[key], a[key], <<item>>)]

\* addAt gone wrong: a field that is undefined or null is not indexed.
addAtSkipVoid(st, key, item, a) ==
  IF key \notin DOMAIN st.indexes THEN [st EXCEPT !.threw = TRUE]
  ELSE IF a[key] \in Voids THEN st
  ELSE LET indexMap == st.indexes[key]
           bucket == IF MapHas(indexMap, a[key])
                     THEN MapGet(indexMap, a[key]) ELSE <<>>
       IN [st EXCEPT !.indexes[key] =
             MapSet(indexMap, a[key], SetAdd(bucket, item))]

\* One round of add's loop.  indexes.get(key)! is undefined when the key has
\* no Map, and indexMap.has then throws.
addAt(st, key, item, a) ==
  IF key \notin DOMAIN st.indexes THEN [st EXCEPT !.threw = TRUE]
  ELSE LET indexMap == st.indexes[key]
           value == a[key]
           withBucket == IF ~MapHas(indexMap, value)
                         THEN MapSet(indexMap, value, <<>>)
                         ELSE indexMap
           filled == MapSet(withBucket, value,
                            SetAdd(MapGet(withBucket, value), item))
       IN [st EXCEPT !.indexes[key] = filled]

\* add's loop from key number i; a throw ends it.
RECURSIVE addKeys(_, _, _, _)
addKeys(st, item, a, i) ==
  IF i > Len(indexedKeys) \/ st.threw THEN st
  ELSE addKeys(addAt(st, indexedKeys[i], item, a), item, a, i + 1)

\* add gone wrong: the item is appended to items even when it is there.
addAgain(st, item, a) ==
  addKeys([st EXCEPT !.items = Append(st.items, item)], item, a, 1)

\* add(item), a the item's fields at the time of the call.
add(st, item, a) ==
  addKeys([st EXCEPT !.items = SetAdd(st.items, item)], item, a, 1)

\* removeAt gone wrong: the item is left in its bucket.
removeAtKeep(st, key, item, a) ==
  IF key \notin DOMAIN st.indexes THEN [st EXCEPT !.threw = TRUE] ELSE st

\* removeAt gone wrong: a bucket left empty is not pruned.
removeAtNoPrune(st, key, item, a) ==
  IF key \notin DOMAIN st.indexes THEN [st EXCEPT !.threw = TRUE]
  ELSE IF ~MapHas(st.indexes[key], a[key]) THEN st
  ELSE [st EXCEPT !.indexes[key] =
          MapSet(st.indexes[key], a[key],
                 SetDelete(MapGet(st.indexes[key], a[key]), item))]

\* One round of remove's loop.
removeAt(st, key, item, a) ==
  IF key \notin DOMAIN st.indexes THEN [st EXCEPT !.threw = TRUE]
  ELSE LET indexMap == st.indexes[key]
           value == a[key]
       IN IF ~MapHas(indexMap, value) THEN st
          ELSE LET bucket == SetDelete(MapGet(indexMap, value), item)
                   pruned == IF Len(bucket) = 0
                             THEN MapDelete(indexMap, value)
                             ELSE MapSet(indexMap, value, bucket)
               IN [st EXCEPT !.indexes[key] = pruned]

\* remove's loop from key number i; a throw ends it.
RECURSIVE removeKeys(_, _, _, _)
removeKeys(st, item, a, i) ==
  IF i > Len(indexedKeys) \/ st.threw THEN st
  ELSE removeKeys(removeAt(st, indexedKeys[i], item, a), item, a, i + 1)

\* remove gone wrong: the loop runs for an item that is not a member too.
removeUnguarded(st, item, a) ==
  removeKeys([st EXCEPT !.items = SetDelete(st.items, item)], item, a, 1)

\* remove(item): returns at once when items.delete(item) is false.
remove(st, item, a) ==
  IF item \notin Range(st.items) THEN st
  ELSE removeKeys([st EXCEPT !.items = SetDelete(st.items, item)], item, a, 1)

\* The bucket object removeBy iterates, as it is now: the Set stored under
\* value, or that Set emptied once remove has pruned it from the Map.
liveBucket(st, key, value) ==
  IF key \in DOMAIN st.indexes /\ MapHas(st.indexes[key], value)
  THEN MapGet(st.indexes[key], value)
  ELSE <<>>

\* for (const item of bucket) this.remove(item): the Set iterator walks the
\* entries in insertion order and skips an entry deleted before it is
\* reached; a throw ends the loop.  at[x] are the fields of x.
RECURSIVE removeByLoop(_, _, _, _, _, _)
removeByLoop(st, key, value, entries, i, at) ==
  IF i > Len(entries) \/ st.threw THEN st
  ELSE IF entries[i] \in Range(liveBucket(st, key, value))
       THEN removeByLoop(
              remove([st EXCEPT !.calls = Append(st.calls, entries[i])],
                     entries[i], at[entries[i]]),
              key, value, entries, i + 1, at)
       ELSE removeByLoop(st, key, value, entries, i + 1, at)

\* for (const item of entries) this.remove(item), over an array: every
\* entry is visited; a throw ends the loop.
RECURSIVE removeEach(_, _, _, _)
removeEach(st, entries, i, at) ==
  IF i > Len(entries) \/ st.threw THEN st
  ELSE removeEach(remove([st EXCEPT !.calls = Append(st.calls, entries[i])],
                         entries[i], at[entries[i]]),
                  entries, i + 1, at)

\* removeBy gone wrong: the members to remove are found by scanning items
\* for the value, not in the bucket.
removeByScan(st, key, value, at) ==
  IF key \notin DOMAIN st.indexes THEN st
  ELSE removeEach(st, SelectSeq(st.items, LAMBDA x : at[x][key] = value), 1, at)

\* removeBy gone wrong: the bucket is dropped from its index and its items
\* from items, and the other indexes are left as they are.
removeByDrop(st, key, value, at) ==
  IF key \notin DOMAIN st.indexes THEN st
  ELSE IF ~MapHas(st.indexes[key], value) THEN st
  ELSE LET bucket == MapGet(st.indexes[key], value)
       IN [st EXCEPT
             !.items = SelectSeq(st.items, LAMBDA x : x \notin Range(bucket)),
             !.indexes[key] = MapDelete(st.indexes[key], value)]

removeBy(st, key, value, at) ==
  IF key \notin DOMAIN st.indexes THEN st
  ELSE IF ~MapHas(st.indexes[key], value) THEN st
  ELSE removeByLoop(st, key, value, MapGet(st.indexes[key], value), 1, at)

\* The Set iterator of the for...of loop, step by step.  It walks the
\* entry list of the Set: data[n] is the item of entry n, and Deleted for
\* an entry that delete has emptied; pos is the entry it looks at next.
Deleted == 0

\* The entry list once the Set holds live: entries of items no longer in it
\* are emptied, and items new to it are entries at the end.
setData(data, live) ==
  [n \in DOMAIN data |-> IF data[n] \in Range(live) THEN data[n] ELSE Deleted]
    \o SelectSeq(live, LAMBDA x : x \notin Range(data))

\* iterNext gone wrong: the loop counts through the items the Set holds now,
\* as through an array that shrinks under it.
iterNextCompact(data, pos) ==
  LET live == {n \in DOMAIN data : data[n] # Deleted}
  IN IF pos > Cardinality(live) THEN 0
     ELSE CHOOSE n \in live :
            Cardinality({m \in live : m <= n}) = pos

\* The entry the iterator yields next, emptied entries being skipped; 0 when
\* it is done.
iterNext(data, pos) ==
  LET left == {n \in pos .. Len(data) : data[n] # Deleted}
  IN IF left = {} THEN 0 ELSE CHOOSE n \in left : \A m \in left : n <= m

\* getBy gone wrong: an undeclared key yields every item.
getByScan(st, key, value) ==
  IF key \notin DOMAIN st.indexes THEN st.items
  ELSE IF MapHas(st.indexes[key], value)
       THEN MapGet(st.indexes[key], value)
       ELSE <<>>

getBy(st, key, value) ==
  IF key \notin DOMAIN st.indexes THEN <<>>
  ELSE IF MapHas(st.indexes[key], value)
       THEN MapGet(st.indexes[key], value)
       ELSE <<>>

getIndexKeys(st, key) ==
  IF key \in DOMAIN st.indexes THEN MapKeys(st.indexes[key]) ELSE <<>>

\* The predicates given to filter: Always is () => true, and
\* [key |-> f, value |-> v] is (item) => item[f] === v.
Always == [all |-> TRUE]

Predicates == {Always} \cup {[key |-> f, value |-> v] : f \in Fields, v \in Values}

Accepts(p, a) == p = Always \/ a[p.key] = p.value

filter(st, p, at) == SelectSeq(st.items, LAMBDA x : Accepts(p, at[x]))

\* clear gone wrong: the indexes are left as they are.
clearItemsOnly(st) == [st EXCEPT !.items = <<>>]

\* clear(): items.clear() and indexes.clear(), which drops the per-key Maps.
clear(st) == [st EXCEPT !.items = <<>>, !.indexes = <<>>]

size(st) == Len(st.items)

\* ------------------------------------------------------ CompositeIndex
\* An index state st is [keys, items, index].  items is only asked has, add
\* and delete, so its order is never read and it is a plain set here.  index
\* is a Map from the value of keys[1] to the Map for keys[2], and so on; under
\* the last key it is a Map to Sets of items.

\* The key lists an index is constructed with.
KeyLists == {<<>>, <<"id">>, <<"id", "name">>}

\* constructor: an empty Set for an empty key list, an empty Map otherwise.
cNew(ks) == [keys |-> ks, items |-> {}, index |-> <<>>]

\* add's while loop from key number i, current being node.
RECURSIVE cAddWalk(_, _, _, _, _)
cAddWalk(node, ks, i, item, a) ==
  LET value == a[ks[i]] IN
  IF i = Len(ks)
  THEN LET set == IF MapHas(node, value) THEN MapGet(node, value) ELSE <<>>
       IN MapSet(node, value, SetAdd(set, item))
  ELSE LET next == IF MapHas(node, value) THEN MapGet(node, value) ELSE <<>>
       IN MapSet(node, value, cAddWalk(next, ks, i + 1, item, a))

\* cAdd gone wrong: a member is indexed again.
cAddAgain(st, item, a) ==
  [st EXCEPT !.items = st.items \cup {item},
             !.index = IF Len(st.keys) = 0 THEN st.index
                       ELSE cAddWalk(st.index, st.keys, 1, item, a)]

\* add(item): nothing when item is a member; with no keys the loop body
\* never runs and index is left as it is.
cAdd(st, item, a) ==
  IF item \in st.items THEN st
  ELSE [st EXCEPT !.items = st.items \cup {item},
                  !.index = IF Len(st.keys) = 0 THEN st.index
                            ELSE cAddWalk(st.index, st.keys, 1, item, a)]

\* cRemoveWalk gone wrong: all that is under the item's value for the first
\* key is dropped.
cRemoveWalkPrefix(node, ks, i, item, a) == MapDelete(node, a[ks[i]])

\* cRemoveWalk gone wrong: a Set left empty stays in its Map.
RECURSIVE cRemoveWalkNoPrune(_, _, _, _, _)
cRemoveWalkNoPrune(node, ks, i, item, a) ==
  IF ~MapHas(node, a[ks[i]]) THEN node
  ELSE IF i = Len(ks)
       THEN MapSet(node, a[ks[i]], SetDelete(MapGet(node, a[ks[i]]), item))
       ELSE MapSet(node, a[ks[i]],
                   cRemoveWalkNoPrune(MapGet(node, a[ks[i]]), ks, i + 1,
                                      item, a))

\* remove's while loop from key number i, current being node.
RECURSIVE cRemoveWalk(_, _, _, _, _)
cRemoveWalk(node, ks, i, item, a) ==
  LET value == a[ks[i]] IN
  IF ~MapHas(node, value) THEN node
  ELSE IF i = Len(ks)
       THEN LET set == SetDelete(MapGet(node, value), item)
            IN IF Len(set) = 0 THEN MapDelete(node, value)
               ELSE MapSet(node, value, set)
       ELSE MapSet(node, value,
                   cRemoveWalk(MapGet(node, value), ks, i + 1, item, a))

\* The Map node, depth keys above the Sets, with item taken out of every Set
\* and the Sets left empty dropped.
RECURSIVE cPurge(_, _, _)
cPurge(node, depth, item) ==
  IF depth = 1
  THEN SelectSeq([j \in DOMAIN node |->
                    [k |-> node[j].k, v |-> SetDelete(node[j].v, item)]],
                 LAMBDA e : Len(e.v) > 0)
  ELSE [j \in DOMAIN node |->
          [k |-> node[j].k, v |-> cPurge(node[j].v, depth - 1, item)]]

\* cRemove gone wrong: the item is taken out of whatever bucket holds it.
cRemoveEverywhere(st, item, a) ==
  IF item \notin st.items THEN st
  ELSE [st EXCEPT !.items = st.items \ {item},
                  !.index = IF Len(st.keys) = 0 THEN st.index
                            ELSE cPurge(st.index, Len(st.keys), item)]

cRemove(st, item, a) ==
  IF item \notin st.items THEN st
  ELSE [st EXCEPT !.items = st.items \ {item},
                  !.index = IF Len(st.keys) = 0 THEN st.index
                            ELSE cRemoveWalk(st.index, st.keys, 1, item, a)]

\* find's while loop from key number i, current being node.
RECURSIVE cFindWalk(_, _, _, _)
cFindWalk(node, ks, i, query) ==
  LET value == query[ks[i]] IN
  IF ~MapHas(node, value) THEN <<>>
  ELSE IF i = Len(ks) THEN MapGet(node, value)
       ELSE cFindWalk(MapGet(node, value), ks, i + 1, query)

\* find(query): [] when there are no keys.
find(st, query) ==
  IF Len(st.keys) = 0 THEN <<>> ELSE cFindWalk(st.index, st.keys, 1, query)

\* The queries: a value for every field (find reads those of st.keys).
Queries == [Fields -> Values]

\* The items under node, a Map i keys above the Sets.
RECURSIVE cUnder(_, _)
cUnder(node, depth) ==
  IF depth = 0 THEN Range(node)
  ELSE UNION {cUnder(node[j].v, depth - 1) : j \in DOMAIN node}

\* -------------------------------------------------- FiniteStateMachine
\* A machine is its transitions, a sequence of [from, to, event]; the
\* initial state is not read by transition.
FsmStates == {"start", "middle", "end"}
FsmEvents == {"go", "finish", ""}

\* What a caller may pass for the state and the event: any string.
FsmAnyState == FsmStates \cup {"invalid"}
FsmAnyEvent == FsmEvents \cup {"invalid"}

FsmTransitions == [from : FsmStates, to : FsmStates, event : FsmEvents]

Machines ==
  UNION {[1 .. n -> FsmTransitions] : n \in 0 .. MaxTransitions}

\* The machine of the tests.
TestMachine ==
  <<[from |-> "start", to |-> "middle", event |-> "go"],
    [from |-> "middle", to |-> "end", event |-> "finish"]>>

\* transitions.find(...): the first transition from index i on whose from
\* and event are state and event, as <<t>>; <<>> for undefined.
RECURSIVE fsmFind(_, _, _, _)
fsmFind(m, i, state, event) ==
  IF i > Len(m) THEN <<>>
  ELSE IF m[i].from = state /\ m[i].event = event THEN <<m[i]>>
  ELSE fsmFind(m, i + 1, state, event)

\* transition gone wrong: the last matching transition is taken.
transitionLast(m, state, event) ==
  LET hits == {i \in DOMAIN m : m[i].from = state /\ m[i].event = event}
  IN IF hits = {} THEN <<>>
     ELSE <<m[CHOOSE i \in hits : \A j \in hits : j <= i].to>>

\* transition(fsm, state, event): <<to>>, or <<>> for undefined.
transition(m, state, event) ==
  LET found == fsmFind(m, 1, state, event)
  IN IF found # <<>> THEN <<found[1].to>> ELSE <<>>

\* ------------------------------------------------------- MealyMachine
\* A Mealy machine is a finite-state machine whose transitions may carry a
\* reducer, a function from context to context.  reducer is "none" for a
\* transition without one.
MmStates == {"idle", "busy"}
MmEvents == {"go", "stop"}
MmAnyState == MmStates \cup {"invalid"}
MmAnyEvent == MmEvents \cup {"invalid"}
Contexts == {0, 1, 2}
Reducers == {"reset", "flip"}

\* reducer(context), for the reducers of the model.
applyReducer(r, context) == IF r = "reset" THEN 0 ELSE 2 - context

MmTransitions ==
  [from : MmStates, to : MmStates, event : MmEvents,
   reducer : Reducers \cup {"none"}]

MealyMachines ==
  UNION {[1 .. n -> MmTransitions] : n \in 0 .. MaxTransitions}

\* What transition returns, <<>> for undefined, and the reducer calls it
\* made, each with its argument.
MmResult(r, calls) == [value |-> r, invoked |-> calls]

\* The outcome of taking transition t with the context.
mmTake(t, context) ==
  IF t.reducer # "none"
  THEN MmResult(<<[state |-> t.to,
                   context |-> applyReducer(t.reducer, context)]>>,
                <<[reducer |-> t.reducer, context |-> context]>>)
  ELSE MmResult(<<[state |-> t.to, context |-> context]>>, <<>>)

\* transition gone wrong: the last matching transition is taken.
mmTransitionLast(mm, state, event, context) ==
  LET hits == {i \in DOMAIN mm : mm[i].from = state /\ mm[i].event = event}
  IN IF hits = {} THEN MmResult(<<>>, <<>>)
     ELSE mmTake(mm[CHOOSE i \in hits : \A j \in hits : j <= i], context)

\* transition(mm, state, event, context) of MealyMachine.ts.
mmTransition(mm, state, event, context) ==
  LET found == fsmFind(mm, 1, state, event)
  IN IF found # <<>> THEN mmTake(found[1], context) ELSE MmResult(<<>>, <<>>)

\* ---------------------------------------------------------- the state
VARIABLES
  attr,      \* attr[x][f]: the current value of field f of object x
  items,     \* IndexedCollection.items
  indexes,   \* IndexedCollection.indexes: key -> Map(value -> Set)
  err,       \* the last call threw (a TypeError)
  last,      \* the last call: its name and arguments
  ret,       \* what the last call returned (<<>> for void)
  assigned,  \* in-place assignments to stored objects so far
  present,   \* the items add was called on and remove not since (nor clear)
  inserted,  \* those items, in the order add first put them in
  cKeys,     \* CompositeIndex.keys
  cItems,    \* CompositeIndex.items
  cIndex,    \* CompositeIndex.index
  fsm,       \* the transitions of a finite-state or Mealy machine
  snap,      \* an array a query returned and the caller kept, with the call
  iter       \* the for...of loop of a removeBy call that is under way

vars ==
  <<attr, items, indexes, err, last, ret, assigned, present, inserted,
    cKeys, cItems, cIndex, fsm, snap, iter>>
flatVars == <<items, indexes>>
compVars == <<cKeys, cItems, cIndex>>

Cur ==
  [items |-> items, indexes |-> indexes, threw |-> FALSE, calls |-> <<>>]

CCur == [keys |-> cKeys, items |-> cItems, index |-> cIndex]

\* The records of last: a call on an item, which was or was not a member
\* when the call was made; a call on a key and a value; a call with no
\* argument.
OnItem(op, item, was) == [op |-> op, item |-> item, wasMember |-> was]
OnValue(op, key, value) == [op |-> op, key |-> key, value |-> value]
Bare(op) == [op |-> op]

\* The caller keeps no array.
NoArray == [call |-> Bare("none"), value |-> <<>>]

\* No removeBy call is under way.
NoLoop == [active |-> FALSE]

\* Both containers as constructed, and no call made.
InitEmpty ==
  /\ items = <<>>
  /\ indexes = NewIndexes
  /\ err = FALSE
  /\ last = Bare("new")
  /\ ret = <<>>
  /\ assigned = 0
  /\ present = {}
  /\ inserted = <<>>
  /\ cKeys = <<"id", "name">>
  /\ cItems = {}
  /\ cIndex = <<>>
  /\ iter = NoLoop

InitContainers ==
  /\ attr = [x \in Items |-> [f \in Fields |-> 1]]
  /\ InitEmpty

Init == InitContainers /\ fsm = TestMachine /\ snap = NoArray

\* keptArray gone wrong: getBy and find hand out the Set they found, which
\* the caller sees change.
keptArrayLive(s, fst, cst) ==
  IF s.call.op = "getBy"
  THEN [s EXCEPT !.value = getBy(fst, s.call.key, s.call.value)]
  ELSE IF s.call.op = "find"
       THEN [s EXCEPT !.value = find(cst, s.call.query)]
       ELSE s

\* The array s the caller keeps, once the containers are in states fst and
\* cst: the queries return Array.from(...), a new array no later call
\* writes to.
keptArray(s, fst, cst) == s

\* A mutating call of the flat collection ends in state st, and leaves pres
\* the items added and not since removed.
FlatStep(st, call, pres) ==
  /\ items' = st.items
  /\ indexes' = st.indexes
  /\ err' = st.threw
  /\ last' = call
  /\ ret' = <<>>
  /\ present' = pres
  /\ inserted' = LET kept == SelectSeq(inserted, LAMBDA y : y \in pres)
                      new == pres \ Range(inserted)
                  IN IF new = {} THEN kept
                     ELSE Append(kept, CHOOSE x \in new : TRUE)
  /\ snap' = keptArray(snap, st, CCur)
  /\ UNCHANGED <<attr, assigned, compVars, fsm, iter>>

\* A query of the flat collection returns r.
FlatQuery(r, call) ==
  /\ ret' = r
  /\ err' = FALSE
  /\ last' = call
  /\ UNCHANGED <<attr, flatVars, assigned, present, inserted, compVars, fsm, iter,
                 snap>>

Add(x) ==
  FlatStep(add(Cur, x, attr[x]),
           OnItem("add", x, x \in Range(items)),
           present \cup {x})

Remove(x) ==
  FlatStep(remove(Cur, x, attr[x]),
           OnItem("remove", x, x \in Range(items)),
           present \ {x})

RemoveBy(key, value) ==
  LET st == removeBy(Cur, key, value, attr) IN
  FlatStep(st, OnValue("removeBy", key, value),
           present \ Range(st.calls))

Clear ==
  FlatStep(clear(Cur), Bare("clear"), {})

GetBy(key, value) ==
  FlatQuery(getBy(Cur, key, value), OnValue("getBy", key, value))

GetIndexKeys(key) ==
  FlatQuery(getIndexKeys(Cur, key), [op |-> "getIndexKeys", key |-> key])

Filter(p) ==
  FlatQuery(filter(Cur, p, attr), [op |-> "filter", predicate |-> p])

Size == FlatQuery(<<size(Cur)>>, Bare("size"))

\* Object x is held by the collection: a member, or left in a bucket.
Held(st, x) ==
  \/ x \in Range(st.items)
  \/ \E key \in DOMAIN st.indexes : \E i \in DOMAIN st.indexes[key] :
       x \in Range(st.indexes[key][i].v)

CHeld(st, x) == x \in st.items \/ x \in cUnder(st.index, Len(st.keys))

Stored(x) == Held(Cur, x) \/ CHeld(CCur, x)

\* The caller assigns field f of object x.
Assign(x, f, v) ==
  /\ attr[x][f] # v
  /\ attr' = [attr EXCEPT ![x][f] = v]
  /\ last' = [op |-> "assign", item |-> x, key |-> f]
  /\ err' = FALSE
  /\ ret' = <<>>
  /\ UNCHANGED <<flatVars, present, inserted, compVars, fsm, iter, snap>>

\* ... of an object no container holds.
MutateFree(x, f, v) == ~Stored(x) /\ Assign(x, f, v) /\ UNCHANGED assigned

\* ... of an object held by the collection, which is not told.
MutateStored(x, f, v) ==
  /\ Stored(x)
  /\ assigned < MaxStale
  /\ Assign(x, f, v)
  /\ assigned' = assigned + 1

\* The caller sets field f of an object no container holds to undefined or
\* to null.
VoidFree(x, f, v) == ~Stored(x) /\ Assign(x, f, v) /\ UNCHANGED assigned

\* add, remove and removeBy on items not changed while stored.
NextFlat ==
  \/ \E x \in Items : Add(x)
  \/ \E x \in Items : Remove(x)
  \/ \E key \in AllKeys, value \in Values : RemoveBy(key, value)
  \/ \E x \in Items, f \in Fields, v \in Values : MutateFree(x, f, v)

SpecFlat == Init /\ [][NextFlat]_vars

Spec == SpecFlat

\* Every method of the collection, on items not changed while stored.
NextFlatApi ==
  \/ \E x \in Items : Add(x)
  \/ \E x \in Items : Remove(x)
  \/ \E key \in AllKeys, value \in Values : RemoveBy(key, value)
  \/ Clear
  \/ \E key \in AllKeys, value \in Values : GetBy(key, value)
  \/ \E key \in AllKeys : GetIndexKeys(key)
  \/ \E p \in Predicates : Filter(p)
  \/ Size
  \/ \E x \in Items, f \in Fields, v \in Values : MutateFree(x, f, v)

SpecFlatApi == Init /\ [][NextFlatApi]_vars

\* The mutating methods, on items the caller may change while stored.
NextFlatMut ==
  \/ \E x \in Items : Add(x)
  \/ \E x \in Items : Remove(x)
  \/ \E key \in AllKeys, value \in Values : RemoveBy(key, value)
  \/ Clear
  \/ \E x \in Items, f \in Fields, v \in Values : MutateFree(x, f, v)
  \/ \E x \in Items, f \in Fields, v \in Values : MutateStored(x, f, v)

SpecFlatMut == Init /\ [][NextFlatMut]_vars

\* A call of the composite index ends in state st and returns r.
CompStep(st, r, call) ==
  /\ cKeys' = st.keys
  /\ cItems' = st.items
  /\ cIndex' = st.index
  /\ err' = FALSE
  /\ last' = call
  /\ ret' = r
  /\ snap' = keptArray(snap, Cur, st)
  /\ UNCHANGED <<attr, assigned, present, inserted, flatVars, fsm, iter>>

\* defineCompositeIndex()(ks): the index is a new one.
CNew(ks) == CompStep(cNew(ks), <<>>, Bare("cnew"))

CAdd(x) ==
  CompStep(cAdd(CCur, x, attr[x]), <<>>,
           OnItem("cadd", x, x \in cItems))

CRemove(x) ==
  CompStep(cRemove(CCur, x, attr[x]), <<>>,
           OnItem("cremove", x, x \in cItems))

CFind(q) ==
  CompStep(CCur, find(CCur, q), [op |-> "find", query |-> q])

\* The composite index on items not changed while stored.
NextComp ==
  \/ \E ks \in KeyLists : CNew(ks)
  \/ \E x \in Items : CAdd(x)
  \/ \E x \in Items : CRemove(x)
  \/ \E q \in Queries : CFind(q)
  \/ \E x \in Items, f \in Fields, v \in Values : MutateFree(x, f, v)

SpecComp == Init /\ [][NextComp]_vars

\* The composite index on items the caller may change while stored.
NextCompMut ==
  \/ \E ks \in KeyLists : CNew(ks)
  \/ \E x \in Items : CAdd(x)
  \/ \E x \in Items : CRemove(x)
  \/ \E x \in Items, f \in Fields, v \in Values : MutateFree(x, f, v)
  \/ \E x \in Items, f \in Fields, v \in Values : MutateStored(x, f, v)

SpecCompMut == Init /\ [][NextCompMut]_vars

\* Both containers, holding the same objects, which the caller changes
\* while they are stored.
NextBothMut ==
  \/ \E x \in Items : Add(x)
  \/ \E x \in Items : Remove(x)
  \/ Clear
  \/ \E x \in Items : CAdd(x)
  \/ \E x \in Items : CRemove(x)
  \/ \E x \in Items, f \in Fields, v \in Values : MutateStored(x, f, v)

SpecBothMut == Init /\ [][NextBothMut]_vars

\* Both containers, holding the same objects, not changed while stored.
NextBoth ==
  \/ \E x \in Items : Add(x)
  \/ \E x \in Items : Remove(x)
  \/ \E ks \in KeyLists : CNew(ks)
  \/ \E x \in Items : CAdd(x)
  \/ \E x \in Items : CRemove(x)
  \/ \E x \in Items, f \in Fields, v \in Values : MutateFree(x, f, v)

SpecBoth == Init /\ [][NextBoth]_vars

\* Both containers, holding objects some fields of which are undefined or
\* null.
NextVoid ==
  \/ \E x \in Items : Add(x)
  \/ \E x \in Items : Remove(x)
  \/ \E ks \in KeyLists : CNew(ks)
  \/ \E x \in Items : CAdd(x)
  \/ \E x \in Items : CRemove(x)
  \/ \E x \in Items, f \in Fields, v \in Voids : VoidFree(x, f, v)

SpecVoid == Init /\ [][NextVoid]_vars

\* The caller keeps the array the query just made returned.
Keep ==
  /\ last.op \in {"getBy", "getIndexKeys", "filter", "find"}
  /\ snap' = [call |-> last, value |-> ret]
  /\ last' = Bare("keep")
  /\ ret' = <<>>
  /\ err' = FALSE
  /\ UNCHANGED <<attr, flatVars, assigned, present, inserted, compVars, fsm, iter>>

\* The queries of both containers between adds and removes, the caller
\* keeping arrays they return.
NextQueries ==
  \/ \E x \in Items : Add(x)
  \/ \E x \in Items : Remove(x)
  \/ \E key \in AllKeys, value \in Values : GetBy(key, value)
  \/ \E key \in AllKeys : GetIndexKeys(key)
  \/ \E p \in Predicates : Filter(p)
  \/ Size
  \/ \E x \in Items : CAdd(x)
  \/ \E x \in Items : CRemove(x)
  \/ \E q \in Queries : CFind(q)
  \/ Keep

SpecQueries == Init /\ [][NextQueries]_vars

\* removeBy(key, value) is entered: it returns at once without the index
\* or the bucket, and starts the loop over the bucket otherwise.
RemoveByBegin(key, value) ==
  /\ ~iter.active
  /\ iter' = IF ~(key \in DOMAIN indexes /\ MapHas(indexes[key], value))
             THEN NoLoop
             ELSE [active |-> TRUE, key |-> key, value |-> value,
                   entries |-> MapGet(indexes[key], value),
                   data |-> MapGet(indexes[key], value),
                   pos |-> 1, calls |-> <<>>, start |-> Cur]
  /\ last' = OnValue("removeBy", key, value)
  /\ ret' = <<>>
  /\ err' = FALSE
  /\ UNCHANGED <<attr, flatVars, assigned, present, inserted, compVars, fsm,
                 snap>>

\* One round of the loop: the iterator yields an item and remove is called
\* on it; a throw ends the call.
RemoveByNext ==
  /\ iter.active
  /\ iterNext(iter.data, iter.pos) # 0
  /\ LET n == iterNext(iter.data, iter.pos)
         x == iter.data[n]
         st == remove(Cur, x, attr[x])
     IN /\ items' = st.items
        /\ indexes' = st.indexes
        /\ err' = st.threw
        /\ present' = present \ {x}
        /\ inserted' = SelectSeq(inserted, LAMBDA y : y # x)
        /\ snap' = keptArray(snap, st, CCur)
        /\ iter' = IF st.threw THEN NoLoop
                   ELSE [iter EXCEPT
                           !.pos = n + 1,
                           !.calls = Append(@, x),
                           !.data = setData(@, liveBucket(st, iter.key,
                                                          iter.value))]
  /\ UNCHANGED <<attr, last, ret, assigned, compVars, fsm>>

\* The iterator is done and removeBy returns.
RemoveByEnd ==
  /\ iter.active
  /\ iterNext(iter.data, iter.pos) = 0
  /\ iter' = NoLoop
  /\ UNCHANGED <<attr, flatVars, err, last, ret, assigned, present, inserted,
                 compVars, fsm, snap>>

\* The objects have all the same values, or each an id of its own.
InitRemoveBy ==
  /\ attr \in {[x \in Items |-> [f \in Fields |-> 1]],
               [x \in Items |->
                  [f \in Fields |->
                     IF f = "id" /\ x \in Values THEN x ELSE 1]]}
  /\ InitEmpty
  /\ fsm = TestMachine
  /\ snap = NoArray

\* The mutating methods on items the caller may change while stored, with
\* removeBy taken one round of its loop at a time.  A call runs to its end
\* before the next is made.
NextRemoveBy ==
  \/ \E x \in Items : ~iter.active /\ Add(x)
  \/ \E x \in Items : ~iter.active /\ Remove(x)
  \/ ~iter.active /\ Clear
  \/ \E x \in Items, f \in Fields, v \in Values :
       ~iter.active /\ MutateStored(x, f, v)
  \/ \E key \in AllKeys, value \in Values : RemoveByBegin(key, value)
  \/ RemoveByNext
  \/ RemoveByEnd

\* A call that has been made goes on until it returns.
SpecRemoveBy ==
  /\ InitRemoveBy
  /\ [][NextRemoveBy]_vars
  /\ WF_vars(RemoveByNext)
  /\ WF_vars(RemoveByEnd)

\* transition(fsm, state, event) is called on the machine.
Transition(state, event) ==
  /\ ret' = transition(fsm, state, event)
  /\ last' = [op |-> "transition", state |-> state, event |-> event]
  /\ err' = FALSE
  /\ UNCHANGED <<attr, flatVars, assigned, present, inserted, compVars, fsm, iter,
                 snap>>

\* Any machine of up to MaxTransitions transitions.
InitFsm == InitContainers /\ fsm \in Machines /\ snap = NoArray

NextFsm ==
  \E state \in FsmAnyState, event \in FsmAnyEvent : Transition(state, event)

SpecFsm == InitFsm /\ [][NextFsm]_vars

\* transition(mm, state, event, context) is called on the Mealy machine.
MmTransition(state, event, context) ==
  LET out == mmTransition(fsm, state, event, context) IN
  /\ ret' = out.value
  /\ last' = [op |-> "mmTransition", state |-> state, event |-> event,
              context |-> context, invoked |-> out.invoked]
  /\ err' = FALSE
  /\ UNCHANGED <<attr, flatVars, assigned, present, inserted, compVars, fsm, iter,
                 snap>>

\* Any Mealy machine of up to MaxTransitions transitions.
InitMealy == InitContainers /\ fsm \in MealyMachines /\ snap = NoArray

NextMealy ==
  \E state \in MmAnyState, event \in MmAnyEvent, context \in Contexts :
    MmTransition(state, event, context)

SpecMealy == InitMealy /\ [][NextMealy]_vars

\* ============================================================ claims
Declared == Range(indexedKeys)
Members == Range(items)

\* The buckets of index key that hold x.
BucketsOf(key, x) ==
  {i \in DOMAIN indexes[key] : x \in Range(indexes[key][i].v)}

\* C1: after any sequence of add, remove and removeBy on items not changed
\* while stored, every member x is in getBy(k, x[k]) for every declared k.
C1_MemberInItsBucket ==
  \A k \in Declared : \A x \in Members :
    x \in Range(getBy(Cur, k, attr[x][k]))

\* An add has put a second member beside the first, which it is like on one
\* key and unlike on the other.
C1_Witness ==
  /\ last.op = "add"
  /\ ~last.wasMember
  /\ Len(items) = 2
  /\ attr[items[1]]["name"] = attr[items[2]]["name"]
  /\ attr[items[1]]["id"] # attr[items[2]]["id"]

\* C2: after any sequence of add, remove and removeBy on items not changed
\* while stored, a bucket of index k holds only members whose k is the
\* bucket's key, each once, and a member is in exactly one bucket of index k.
C2_BucketsExact ==
  \A k \in Declared :
    /\ \A i \in DOMAIN indexes[k] :
         LET bucket == indexes[k][i].v IN
         /\ \A x \in Range(bucket) :
              x \in Members /\ attr[x][k] = indexes[k][i].k
         /\ Cardinality(Range(bucket)) = Len(bucket)
    /\ \A x \in Members : Cardinality(BucketsOf(k, x)) = 1

\* A remove has taken one of two items out of a bucket they shared.
C2_Witness ==
  /\ last.op = "remove"
  /\ last.wasMember
  /\ Len(items) = 1
  /\ attr[last.item]["id"] = attr[items[1]]["id"]
  /\ getBy(Cur, "id", attr[last.item]["id"]) = items

\* The members whose value for every declared key of the composite index is
\* the query's.
Matching(q) ==
  {x \in cItems : \A i \in DOMAIN cKeys : attr[x][cKeys[i]] = q[cKeys[i]]}

\* C3: after any interleaving of add and remove on items not changed while
\* stored, find(q) returns exactly the members whose value for every
\* declared key is q's, each once, and [] when there is none.
C3_FindExact ==
  \A q \in Queries :
    LET found == find(CCur, q) IN
    /\ Range(found) = Matching(q)
    /\ Len(found) = Cardinality(Matching(q))

\* The same for an index constructed with at least one key.
C3_FindExactKeyed == Len(cKeys) > 0 => C3_FindExact

\* C4: after add, remove, removeBy or clear, in every reachable state,
\* getIndexKeys(k) holds no value v for which getBy(k, v) is empty.
C4_NoEmptyBucket ==
  \A k \in AllKeys :
    LET listed == getIndexKeys(Cur, k) IN
    \A i \in DOMAIN listed : getBy(Cur, k, listed[i]) # <<>>

\* A remove has taken the last item out of a bucket, and another bucket of
\* the same index is left.
C4_Witness ==
  /\ last.op = "remove"
  /\ last.wasMember
  /\ getBy(Cur, "id", attr[last.item]["id"]) = <<>>
  /\ getIndexKeys(Cur, "id") # <<>>

\* C5: in every reachable state size() is the number of distinct items that
\* were added and not since removed, and the length of filter(() => true).
C5_SizeAgrees ==
  /\ size(Cur) = Cardinality(present)
  /\ size(Cur) = Len(filter(Cur, Always, attr))

\* A member was added again beside another member: each is counted once.
C5_Witness ==
  /\ last.op = "add"
  /\ last.wasMember
  /\ size(Cur) = 2

\* C6: when a member is passed to add again after one of its indexed fields
\* was assigned, it is indexed anew: for every declared k it is in
\* getBy(k, v) for its present value v of k and for no other v.
C6_ReAddReindexes ==
  (last.op = "add" /\ last.wasMember /\ ~err) =>
    \A k \in Declared : \A v \in Values :
      last.item \in Range(getBy(Cur, k, v)) <=> v = attr[last.item][k]

\* C7: add of an item that is a member of the composite index changes
\* nothing, whatever was assigned to its fields since it was inserted: the
\* index is as it was and find returns for every query what it returned.
C7_ReAddIgnored ==
  [][\A x \in Items :
       (x \in cItems /\ CAdd(x)) =>
         /\ UNCHANGED compVars
         /\ \A q \in Queries : find(CCur, q)' = find(CCur, q)]_vars

\* A member was added again after an assignment to an indexed field: find
\* does not return it for its present values and does for those it had.
C7_Witness ==
  /\ last.op = "cadd"
  /\ last.wasMember
  /\ Len(cKeys) > 0
  /\ last.item \notin Range(find(CCur, attr[last.item]))
  /\ \E q \in Queries : last.item \in Range(find(CCur, q))

\* What the queries return in collection state st.
Observed(st) ==
  [by |-> [k \in AllKeys |-> [v \in Values |-> getBy(st, k, v)]],
   keys |-> [k \in AllKeys |-> getIndexKeys(st, k)],
   filtered |-> [p \in Predicates |-> filter(st, p, attr)],
   size |-> size(st)]

\* s and t answer every query alike, now and after any one add.
SameAnswers(s, t) ==
  /\ Observed(s) = Observed(t)
  /\ \A x \in Items :
       LET s1 == add(s, x, attr[x])
           t1 == add(t, x, attr[x])
       IN s1.threw = t1.threw /\ Observed(s1) = Observed(t1)

\* C8: after clear() the collection is as a newly constructed one with the
\* same keys: the queries, and an add followed by the queries, give what they
\* give on a fresh collection.
C8_ClearRestores == last.op = "clear" => SameAnswers(Cur, NewCollection)

\* C9: in every reachable state the call just made has completed without
\* raising an error, and an add has left its item a member.
C9_Total ==
  /\ ~err
  /\ last.op = "add" => last.item \in Members

\* C10: after removeBy(key, value) on a declared key no member has value for
\* key, getBy(key, value) is [], no bucket of any index holds an item that is
\* not a member, and every member is in its bucket of every index.
C10_RemoveByRemoves ==
  (last.op = "removeBy" /\ last.key \in Declared) =>
    /\ \A x \in Members : attr[x][last.key] # last.value
    /\ getBy(Cur, last.key, last.value) = <<>>
    /\ \A k \in Declared : \A v \in Values :
         Range(getBy(Cur, k, v)) \subseteq Members
    /\ \A k \in Declared : \A x \in Members :
         x \in Range(getBy(Cur, k, attr[x][k]))

\* C11: a composite index constructed with an empty key list is one bucket
\* of all the items: find returns every member, so an item that add has put
\* in, and no item that remove has taken out.
C11_EmptyKeysOneBucket ==
  Len(cKeys) = 0 => \A q \in Queries : Range(find(CCur, q)) = cItems

\* C12: remove(item) followed by add(item) ends the staleness an assignment
\* to a field of the stored item has left: after the add the item is, for
\* every declared k, in the bucket of its present value of k and in no other
\* bucket of index k, and getIndexKeys(k) lists no value that no member has.
C12_RemoveAddEndsStaleness ==
  [][\A x \in Items :
       (last.op = "remove" /\ last.item = x /\ last.wasMember /\ ~err /\ Add(x))
         => /\ \A k \in Declared : \A v \in Values :
                 (x \in Range(getBy(Cur, k, v)))' <=> v = attr[x][k]
            /\ Members' = {x} =>
                 \A k \in Declared : getIndexKeys(Cur, k)' = <<attr[x][k]>>]_vars

\* What find returns for every query in index state st.
CObserved(st) == [q \in Queries |-> find(st, q)]

\* C13: remove(item) of an item that is not a member, of either container,
\* changes neither the membership nor any index or bucket, and raises
\* nothing: size, filter, getBy, getIndexKeys and find return what they did.
C13_RemoveNonMemberNoOp ==
  [][\A x \in Items :
       /\ (x \notin Members /\ Remove(x)) =>
            /\ UNCHANGED flatVars
            /\ ~err'
            /\ Observed(Cur)' = Observed(Cur)
       /\ (x \notin cItems /\ CRemove(x)) =>
            /\ UNCHANGED compVars
            /\ CObserved(CCur)' = CObserved(CCur)]_vars

\* remove was called on an item that is not a member while a bucket still
\* holds it, under the value it has now.
C13_Witness ==
  /\ last.op = "remove"
  /\ ~last.wasMember
  /\ last.item \in Range(getBy(Cur, "id", attr[last.item]["id"]))

\* The paths of the composite index: a value for each declared key.
CPaths == [Range(cKeys) -> Values]

\* The path of item x: its present values for the declared keys.
CTuple(x) == [k \in Range(cKeys) |-> attr[x][k]]

\* The terminal bucket path p leads to from the root: the root itself, a
\* Set, when there are no keys.
cTerminal(st, p) ==
  IF Len(st.keys) = 0 THEN st.index ELSE cFindWalk(st.index, st.keys, 1, p)

\* The paths whose terminal bucket holds x.
CPlaces(x) == {p \in CPaths : x \in Range(cTerminal(CCur, p))}

\* C14: after any sequence of add and remove on items not changed while
\* stored, every member is in the terminal bucket its values for the
\* declared keys lead to, and no item is in the buckets of two paths.
C14_OnePath ==
  /\ \A x \in cItems : CPlaces(x) = {CTuple(x)}
  /\ \A x \in Items : Cardinality(CPlaces(x)) <= 1

\* The same for an index constructed with at least one key.
C14_OnePathKeyed == Len(cKeys) > 0 => C14_OnePath

\* Item x is a member the index does not hold under its present values:
\* they were assigned since it was inserted.
CStale(x) == x \in cItems /\ CTuple(x) \notin CPlaces(x)

Twins(x, y) == x # y /\ attr[x] = attr[y]

\* The flat collection keeps an item that was added and not since removed,
\* whether or not an item like it was added or removed: it is counted by
\* size() and returned by getBy, and getBy returns no item that was removed.
C16_FlatIdentity ==
  \A x, y \in Items :
    Twins(x, y) =>
      /\ x \in present =>
           /\ x \in Members
           /\ \A k \in Declared : x \in Range(getBy(Cur, k, attr[x][k]))
      /\ {x, y} \subseteq present => size(Cur) >= 2
      /\ x \notin present =>
           \A k \in Declared : x \notin Range(getBy(Cur, k, attr[x][k]))

\* The composite index likewise: add makes its item a member, and find on
\* the values of two like items returns those of them that are members.
C16_CompIdentity ==
  /\ last.op = "cadd" => last.item \in cItems
  /\ \A x, y \in Items :
       Twins(x, y) =>
         (x \in Range(find(CCur, attr[x])) <=> x \in cItems)

\* C16: membership is by reference in both containers: two distinct items
\* with the same field values are both stored and both returned (by size
\* and getBy, by find), and removing one leaves the other stored and found.
C16_IdentityMembership == C16_FlatIdentity /\ C16_CompIdentity

\* The same for a composite index constructed with at least one key.
C16_IdentityMembershipKeyed ==
  C16_FlatIdentity /\ (Len(cKeys) > 0 => C16_CompIdentity)

C18_IndexKeysExact ==
  \A k \in AllKeys :
    LET listed == getIndexKeys(Cur, k) IN
    /\ Cardinality(Range(listed)) = Len(listed)
    /\ IF k \in Declared
       THEN Range(listed) = {attr[x][k] : x \in Members}
       ELSE listed = <<>>

\* C19: filter(predicate) returns the members that satisfy the predicate,
\* in the order add first put them in (an add of a member does not move
\* it), and changes nothing.
C19_FilterInOrder ==
  [][\A p \in Predicates :
       Filter(p) =>
         /\ ret' = SelectSeq(inserted, LAMBDA x : Accepts(p, attr[x]))
         /\ Range(ret') = {x \in present : Accepts(p, attr[x])}
         /\ UNCHANGED flatVars]_vars

\* filter has returned some of the members and not all of them.
C19_Witness ==
  /\ last.op = "filter"
  /\ last.predicate # Always
  /\ ret # <<>>
  /\ Len(ret) < Len(items)

\* C20: immediately after clear(), from any state, size() is 0,
\* filter(() => true) is [], and getBy(k, v) and getIndexKeys(k) are [] for
\* every key k and value v.
C20_ClearEmpties ==
  [][Clear =>
       /\ size(Cur)' = 0
       /\ filter(Cur, Always, attr)' = <<>>
       /\ \A k \in AllKeys :
            /\ getIndexKeys(Cur, k)' = <<>>
            /\ \A v \in Values : getBy(Cur, k, v)' = <<>>]_vars

\* clear was called after the caller had changed a stored item.
C20_Witness ==
  /\ last.op = "clear"
  /\ assigned > 0
  /\ size(Cur) = 0

\* C21: removeBy(key, value) changes nothing and raises nothing when key is
\* not a declared key or when index key has no bucket for value: items,
\* size() and every index are as they were.
C21_RemoveByNoOp ==
  [][\A key \in AllKeys, value \in Values :
       (/\ RemoveBy(key, value)
        /\ \/ key \notin Declared
           \/ value \notin Range(getIndexKeys(Cur, key)))
         => /\ UNCHANGED flatVars
            /\ ~err'
            /\ size(Cur)' = size(Cur)]_vars

\* removeBy was called for a value of a declared key that a member has
\* now and had not when it was added, so that no bucket is filed under it.
C21_Witness ==
  /\ last.op = "removeBy"
  /\ last.key \in Declared
  /\ \E x \in Members : attr[x][last.key] = last.value
  /\ last.value \notin Range(getIndexKeys(Cur, last.key))
  /\ getIndexKeys(Cur, last.key) # <<>>

\* C22: add(item) of a member whose fields are as they were when it was
\* added changes nothing: size() is the same, the item is stored once, and
\* every bucket of every index is as it was.
C22_AddIdempotent ==
  [][\A x \in Items :
       (x \in Members /\ Add(x)) =>
         /\ UNCHANGED flatVars
         /\ size(Cur)' = size(Cur)
         /\ Cardinality({i \in DOMAIN items' : items'[i] = x}) = 1
         /\ Observed(Cur)' = Observed(Cur)]_vars

\* A member that is alone in its buckets was added again.
C22_Witness ==
  /\ last.op = "add"
  /\ last.wasMember
  /\ ~err
  /\ \A k \in Declared : getBy(Cur, k, attr[last.item][k]) = <<last.item>>

RECURSIVE cSets(_, _)
cSets(node, depth) ==
  IF depth = 0 THEN {}
  ELSE IF depth = 1 THEN {node[j].v : j \in DOMAIN node}
  ELSE UNION {cSets(node[j].v, depth - 1) : j \in DOMAIN node}

\* C24: in every reachable state no Set of the composite index is stored
\* empty (remove deletes the entry of a Set it empties); a Map above the
\* Sets is kept when remove leaves it without entries, and find through
\* such a Map returns [].
C24_NoEmptyTerminal ==
  /\ [](/\ \A set \in cSets(cIndex, Len(cKeys)) : set # <<>>
        /\ \A q \in Queries :
             (/\ Len(cKeys) > 1
              /\ MapHas(cIndex, q[cKeys[1]])
              /\ MapGet(cIndex, q[cKeys[1]]) = <<>>) => find(CCur, q) = <<>>)
  /\ [][\A x \in Items :
          (CRemove(x) /\ Len(cKeys) > 1) =>
            MapKeys(cIndex)' = MapKeys(cIndex)]_vars

\* remove has taken the only item out of its Set: the Set is gone, and the
\* Map that held it is left without entries.
C24_Witness ==
  /\ last.op = "cremove"
  /\ last.wasMember
  /\ Len(cKeys) > 1
  /\ MapHas(cIndex, attr[last.item][cKeys[1]])
  /\ MapGet(cIndex, attr[last.item][cKeys[1]]) = <<>>

\* The transitions of the machine from state on event, by index.
FsmHits(state, event) ==
  {i \in DOMAIN fsm : fsm[i].from = state /\ fsm[i].event = event}

\* C25: transition(fsm, state, event) returns the to of the first
\* transition in list order whose from is state and whose event is event,
\* and undefined when there is none (a state or an event the machine does
\* not have, the empty event); the machine is as it was.
C25_TransitionFirstMatch ==
  [][\A state \in FsmAnyState, event \in FsmAnyEvent :
       Transition(state, event) =>
         /\ fsm' = fsm
         /\ FsmHits(state, event) = {} => ret' = <<>>
         /\ \A i \in FsmHits(state, event) :
              (\A j \in FsmHits(state, event) : i <= j) => ret' = <<fsm[i].to>>]_vars

\* Two transitions have the same from and event and different to, and
\* transition has returned the to of the first.
C25_Witness ==
  /\ last.op = "transition"
  /\ Len(fsm) = 2
  /\ fsm[1].from = last.state /\ fsm[1].event = last.event
  /\ fsm[2].from = last.state /\ fsm[2].event = last.event
  /\ fsm[1].to # fsm[2].to
  /\ ret = <<fsm[1].to>>

\* The tuples of values for the declared keys that find returns x for.
CFoundAt(x) == {p \in CPaths : x \in Range(find(CCur, p))}

\* C26: in every state reached by add, remove and assignments to the
\* fields of stored items, the items find returns, over all tuples, are
\* exactly the members, and find returns no item for two distinct tuples.
C26_FindIsMembership ==
  /\ UNION {Range(find(CCur, p)) : p \in CPaths} = cItems
  /\ \A x \in Items : Cardinality(CFoundAt(x)) <= 1

\* The same for an index constructed with at least one key.
C26_FindIsMembershipKeyed == Len(cKeys) > 0 => C26_FindIsMembership

\* C27: in every reachable state, also one where a bucket holds an item a
\* field of which was assigned since, removeBy(key, value) leaves items and
\* every index as taking the array getBy(key, value) and calling remove on
\* each of its items leaves them.
C27_RemoveByIsRemoveEach ==
  [][\A key \in AllKeys, value \in Values :
       RemoveBy(key, value) =>
         LET st == removeEach(Cur, getBy(Cur, key, value), 1, attr)
         IN /\ items' = st.items
            /\ indexes' = st.indexes
            /\ err' = st.threw]_vars

\* removeBy has gone through a bucket of two items that were filed under
\* a value they no longer have: they are no members, and the bucket stays.
C27_Witness ==
  /\ last.op = "removeBy"
  /\ Len(getBy(Cur, last.key, last.value)) = 2
  /\ Members = {}
  /\ present = {}

\* C28: add(x) and remove(x) leave find(t) as it was for every tuple t
\* that is not x's tuple of values for the declared keys, also a tuple
\* that begins as x's does and differs on a later key.
C28_OtherTuplesUntouched ==
  [][\A x \in Items :
       (CAdd(x) \/ CRemove(x)) =>
         \A p \in CPaths :
           p # CTuple(x) => find(CCur, p)' = find(CCur, p)]_vars

\* A member was removed while another member has its value for the first
\* key and another value for the second, and find still returns that one.
C28_Witness ==
  /\ last.op = "cremove"
  /\ last.wasMember
  /\ cKeys = <<"id", "name">>
  /\ \E y \in cItems :
       /\ attr[y]["id"] = attr[last.item]["id"]
       /\ attr[y]["name"] # attr[last.item]["name"]
       /\ find(CCur, attr[y]) = <<y>>

IsQuery ==
  \/ \E key \in AllKeys, value \in Values : GetBy(key, value)
  \/ \E key \in AllKeys : GetIndexKeys(key)
  \/ \E p \in Predicates : Filter(p)
  \/ Size
  \/ \E q \in Queries : CFind(q)

\* A mutating method is called.
IsMutation ==
  \E x \in Items : Add(x) \/ Remove(x) \/ CAdd(x) \/ CRemove(x)

KeptKeys(old, new) == SelectSeq(old, LAMBDA v : v \in Range(new))

\* new lists the buckets of old that still exist, in old's order, and after
\* them those created since.
CreationOrder(old, new) ==
  LET kept == KeptKeys(old, new) IN
  /\ Len(kept) <= Len(new)
  /\ SubSeq(new, 1, Len(kept)) = kept
  /\ \A i \in Len(kept) + 1 .. Len(new) : new[i] \notin Range(old)
  /\ Cardinality(Range(new)) = Len(new)

\* C31: getIndexKeys(k) lists the values in the order in which their
\* buckets, those there are now, were created: a call returns the keys of
\* the index Map as they stand; every step keeps the listed values that
\* still have a bucket in their order and puts a value whose bucket it
\* creates after them; an add that does not throw appends the item's value
\* when that value had no bucket (one pruned earlier included) and moves
\* nothing otherwise.
C31_IndexKeysInCreationOrder ==
  /\ [](last.op = "getIndexKeys" => ret = getIndexKeys(Cur, last.key))
  /\ [][\A k \in Declared :
          LET old == getIndexKeys(Cur, k)
              new == getIndexKeys(Cur, k)'
          IN /\ CreationOrder(old, new)
             /\ (last'.op = "add" /\ ~err') =>
                  LET v == attr[last'.item][k] IN
                  new = IF v \in Range(old) THEN old ELSE Append(old, v)]_vars

\* getIndexKeys("id") has returned [2, 1]: the bucket of 2 was created
\* before the one 1 has now, and the list is not in the order of the values.
C31_Witness ==
  /\ last.op = "getIndexKeys"
  /\ last.key = "id"
  /\ ret = <<2, 1>>
  /\ Len(items) = 2
  /\ attr[items[2]]["id"] = 1
  /\ inserted[2] = items[2]

\* C32: MealyMachine transition(mm, state, event, context) returns, for the
\* first transition in list order whose from is state and whose event is
\* event, its to with reducer(context), the reducer called once and only
\* that one, or with the context as it is when that transition has no
\* reducer, no reducer being called; when no transition matches it returns
\* undefined and calls no reducer.  The machine is as it was.
C32_MealyFirstMatch ==
  [][\A state \in MmAnyState, event \in MmAnyEvent, context \in Contexts :
       MmTransition(state, event, context) =>
         LET hits == FsmHits(state, event) IN
         /\ fsm' = fsm
         /\ hits = {} => ret' = <<>> /\ last'.invoked = <<>>
         /\ \A i \in hits :
              (\A j \in hits : i <= j) =>
                IF fsm[i].reducer = "none"
                THEN /\ ret' = <<[state |-> fsm[i].to, context |-> context]>>
                     /\ last'.invoked = <<>>
                ELSE /\ ret' = <<[state |-> fsm[i].to,
                                  context |->
                                    applyReducer(fsm[i].reducer, context)]>>
                     /\ last'.invoked =
                          <<[reducer |-> fsm[i].reducer,
                             context |-> context]>>]_vars

\* Two transitions match, with different to and different reducers, and
\* transition has returned the to of the first with its reducer's context,
\* which is not the one passed in nor the one the second would give.
C32_Witness ==
  /\ last.op = "mmTransition"
  /\ Len(fsm) = 2
  /\ fsm[1].from = last.state /\ fsm[1].event = last.event
  /\ fsm[2].from = last.state /\ fsm[2].event = last.event
  /\ fsm[1].to # fsm[2].to
  /\ fsm[1].reducer = "flip" /\ fsm[2].reducer = "reset"
  /\ last.context = 0
  /\ ret = <<[state |-> fsm[1].to, context |-> 2]>>
  /\ Len(last.invoked) = 1

\* The loop taken round by round leaves the collection as removeBy taken
\* in one step does, with the same calls of remove.
RemoveByStepsAgree ==
  [][RemoveByEnd =>
       LET st == removeBy(iter.start, iter.key, iter.value, attr)
       IN /\ items = st.items
          /\ indexes = st.indexes
          /\ iter.calls = st.calls]_vars

\* C33: from every reachable state, stale buckets and a cleared collection
\* included, a removeBy call returns: its loop over the live bucket, from
\* which remove deletes as it goes, comes to an end, the bucket never
\* growing under it and no round throwing, and at the end remove has been
\* called exactly once on each item the bucket held when the call started,
\* in the bucket's order.
C33_RemoveByTerminates ==
  /\ [](iter.active => Len(iter.data) = Len(iter.entries))
  /\ [][RemoveByNext => iter'.active /\ ~err']_vars
  /\ [][RemoveByEnd => iter.calls = iter.entries]_vars
  /\ iter.active ~> ~iter.active

\* The loop has gone through a bucket of two items, remove deleting each
\* from the bucket under the iterator, and is about to end.
C33_Witness ==
  /\ iter.active
  /\ Len(iter.entries) = 2
  /\ iter.data = <<Deleted, Deleted>>
  /\ iter.calls = iter.entries
  /\ iterNext(iter.data, iter.pos) = 0

====
